---- MODULE Spec2Model ----
(***************************************************************************)
(* Nano_WebRelay8 (OpenHab sketch): the request router loop(), the command *)
(* parser changeRelayStatus() and the response writers, as a state machine *)
(* over the relay bank (portStatus), the output pins and the client        *)
(* connection.                                                             *)
(*                                                                         *)
(* Memory is a sequence of bytes indexed by ADDRESS: mem[a] is the byte at *)
(* address a, address 0 is the null pointer.  The request buffer is the    *)
(* malloc'ed block at address Base; below it lies low memory, above its    *)
(* terminator lie bytes the program never wrote.  Bytes are one-character  *)
(* strings, NUL is the zero byte.                                          *)
(***************************************************************************)
EXTENDS Integers, Sequences, FiniteSets, TLC

VARIABLES portStatus, pins, pc, msg, prev, h

vars == <<portStatus, pins, pc, msg, prev, h>>

(* ------------------------- program constants --------------------------- *)

numRelays == 8
maxSize == 480
RC_ERR == "500"
RC_OK == "200"
R_OFF == 0
R_ON == 1
R_INV == 2
TOK_AND == "&"
TOK_EQU == "="
RCL == 2 + (IF numRelays > 9 THEN 2 ELSE 1)
NL == "\n"
JSS == "\""
OH_ON == "ON"
OH_OFF == "OFF"
RS_START == "{\"r\":["
RS_END == "]}"
RS_SEP == ","
RS_ERR_START == "{\"e\":"
RS_ERR_END == "}"
HD_START == "HTTP/1.1 "
HD_END == " \nContent-Type: application/json\nConnection: close\n\n"
VERSION == "{\"version\":\"0.3.OPENHAB\"}"
GET == <<"G", "E", "T">>
POST == <<"P", "O", "S", "T">>
REQ_ABOUT == <<"/", "a", "b", "o", "u", "t">>
HIGH == "HIGH"
LOW == "LOW"

NUL == "NUL"
NULL == 0

Relays == 0 .. (numRelays - 1)
outputPorts(i) == i + 2
Ports == {outputPorts(i) : i \in Relays}

(* ------------------------------ bounds --------------------------------- *)

\* number of low-memory bytes modelled below the request buffer
LowLen == 5
\* most segments in a generated multi-segment command
MaxSegs == 3

(* ------------------------- C library functions ------------------------- *)

Min(S) == CHOOSE x \in S : \A y \in S : x <= y

\* memchr(from, ch, n): the first address in from .. from+n-1 holding ch, or NULL
Memchr(mem, from, ch, n) ==
  LET hits == {a \in from .. (from + n - 1) : a >= 1 /\ a <= Len(mem) /\ mem[a] = ch}
  IN IF hits = {} THEN NULL ELSE Min(hits)

\* strncmp(mem+at, lit, n) == 0 ; the comparison stops at the first difference,
\* so a buffer shorter than lit differs at its terminator
StrncmpEq(mem, at, lit, n) ==
  \A i \in 1 .. n : mem[at + i - 1] = lit[i]

\* the C string starting at address a: the bytes up to the next NUL
CStr(mem, a) ==
  LET z == {b \in a .. Len(mem) : mem[b] = NUL}
      e == IF z = {} THEN Len(mem) + 1 ELSE Min(z)
  IN [i \in 1 .. (e - a) |-> mem[a + i - 1]]

Digits == {"0", "1", "2", "3", "4", "5", "6", "7", "8", "9"}
DigitVal(c) ==
  CASE c = "0" -> 0 [] c = "1" -> 1 [] c = "2" -> 2 [] c = "3" -> 3 [] c = "4" -> 4
    [] c = "5" -> 5 [] c = "6" -> 6 [] c = "7" -> 7 [] c = "8" -> 8 [] c = "9" -> 9
IsSpace(c) == c \in {" ", "\t", "\n", "\r", "\f"}

RECURSIVE AtoiDigits(_, _, _)
AtoiDigits(s, i, acc) ==
  IF i > Len(s) \/ s[i] \notin Digits THEN acc
  ELSE AtoiDigits(s, i + 1, acc * 10 + DigitVal(s[i]))

RECURSIVE SkipSpace(_, _)
SkipSpace(s, i) == IF i <= Len(s) /\ IsSpace(s[i]) THEN SkipSpace(s, i + 1) ELSE i

\* atoi: leading white space, an optional sign, then decimal digits up to the
\* first byte that is no digit (the texts parsed here have at most 4 digits,
\* so the 16-bit int never overflows)
Atoi(s) ==
  LET i == SkipSpace(s, 1)
  IN IF i <= Len(s) /\ s[i] = "-" THEN 0 - AtoiDigits(s, i + 1, 0)
     ELSE IF i <= Len(s) /\ s[i] = "+" THEN AtoiDigits(s, i + 1, 0)
     ELSE AtoiDigits(s, i, 0)

\* memcpy(dst, src, n) into a fresh destination: the n bytes at src
Bytes(mem, a, n) == [i \in 1 .. n |-> mem[a + i - 1]]

(* --------------------------- response writers -------------------------- *)

CRLF == "\r\n"

IntStr(n) ==
  CASE n = 1 -> "1" [] n = 2 -> "2" [] n = 3 -> "3" [] n = 4 -> "4" [] n = 5 -> "5" [] n = 6 -> "6"

\* returnHeader(client, httpCode)
returnHeader(st, httpCode) ==
  [st EXCEPT !.out = @ \o <<HD_START, httpCode, HD_END>>]

\* returnErr(client, rc)
returnErr(st, rc) ==
  [st EXCEPT !.out = @ \o <<RS_ERR_START, IntStr(rc), RS_ERR_END, CRLF>>]

RECURSIVE PrintRelays(_, _)
PrintRelays(bank, i) ==
  IF ~(i < numRelays) THEN <<>>
  ELSE <<JSS, IF bank[i] THEN OH_ON ELSE OH_OFF, JSS>>
         \o (IF i < numRelays - 1 THEN <<RS_SEP>> ELSE <<>>)
         \o PrintRelays(bank, i + 1)

\* (mutant) a status rendered from the bank as it was when the request arrived
printRelayStatus_Before(st) ==
  [st EXCEPT !.out = @ \o <<RS_START>> \o PrintRelays(st.before, 0) \o <<RS_END, CRLF>>]

\* printRelayStatus(client)
printRelayStatus(st) ==
  [st EXCEPT !.out = @ \o <<RS_START>> \o PrintRelays(st.portStatus, 0) \o <<RS_END, CRLF>>]

\* client.println(VERSION)
printVersion(st) == [st EXCEPT !.out = @ \o <<VERSION, CRLF>>]

(* ----------------------------- relay bank ------------------------------ *)

\* digitalWrite(outputPorts[relNum], level)
digitalWrite(st, relNum, level) ==
  [st EXCEPT !.pins[outputPorts(relNum)] = level,
             !.dw = Append(@, <<outputPorts(relNum), level>>)]

\* (mutant) an ON that drives the pin whatever the recorded state
RelayOn_Always(st, relNum) ==
  [digitalWrite(st, relNum, LOW) EXCEPT !.portStatus[relNum] = TRUE]

\* case R_ON
RelayOn(st, relNum) ==
  IF st.portStatus[relNum] # TRUE
  THEN [digitalWrite(st, relNum, LOW) EXCEPT !.portStatus[relNum] = TRUE]
  ELSE st

\* case R_OFF
RelayOff(st, relNum) ==
  IF st.portStatus[relNum] # FALSE
  THEN [digitalWrite(st, relNum, HIGH) EXCEPT !.portStatus[relNum] = FALSE]
  ELSE st

\* (mutant) an inversion that drives the pin to the level of the old state
RelayInv_OldLevel(st, relNum) ==
  [digitalWrite(st, relNum, IF st.portStatus[relNum] THEN LOW ELSE HIGH)
     EXCEPT !.portStatus[relNum] = ~st.portStatus[relNum]]

\* case R_INV
RelayInv(st, relNum) ==
  [digitalWrite(st, relNum, IF ~st.portStatus[relNum] THEN LOW ELSE HIGH)
     EXCEPT !.portStatus[relNum] = ~st.portStatus[relNum]]

(* --------------------------- command parser ---------------------------- *)

\* (mutant) an error return that first restores the bank and the pins
ParseFail_Rollback(st, rc) ==
  [returnErr(returnHeader([st EXCEPT !.portStatus = st.before, !.pins = st.pinsBefore], RC_ERR), rc)
     EXCEPT !.fail = Len(st.segs) + 1]

\* an error return of the parser: header, error body, and no further segment
ParseFail(st, rc) ==
  [returnErr(returnHeader(st, RC_ERR), rc) EXCEPT !.fail = Len(st.segs) + 1]

\* (mutant) a length check that lets two bytes pass
TooShort_Two(length) == length < 2

\* if(length < 3)
TooShort(length) == length < 3

\* if( !(relLen <= RCL) )
KeyTooLong(relLen) == ~(relLen <= RCL)

\* (mutant) a range check that lets the relay count itself pass
BadRelNum_Le(relNum) == ~(relNum <= numRelays /\ relNum >= 0)

\* if( !(relNum < numRelays && relNum >= 0) )
BadRelNum(relNum) == ~(relNum < numRelays /\ relNum >= 0)

\* if( statLen != 1 )
BadStatLen(statLen) == statLen # 1

\* char* relNumChar; memcpy(relNumChar, lastSrc, relLen); atoi(relNumChar):
\* the destination is an uninitialised pointer and no terminator is written,
\* so atoi reads the relLen copied bytes and then the indeterminate bytes
\* that follow them (tail)
CopyAtoi(mem, from, n, tail) == Atoi(Bytes(mem, from, n) \o tail)

\* switch(stat); an index outside the array names no line of the bank: the
\* bank is left as it is and the index is kept in the segment log
ApplyStat(st, relNum, stat) ==
  IF relNum \notin Relays THEN st
  ELSE CASE stat = R_ON -> RelayOn(st, relNum)
         [] stat = R_OFF -> RelayOff(st, relNum)
         [] stat = R_INV -> RelayInv(st, relNum)

\* The do { ... } while(src) loop of changeRelayStatus.  SegLoop is one
\* iteration, started at address src (the command's first byte, then the
\* address of each '&' found); the operators below are its successive steps.
RECURSIVE SegLoop(_, _, _, _, _, _)

\* } while(src);  then the success response
SegNext(st, mem, msgEnd, src, kt, vt) ==
  IF src # NULL THEN SegLoop(st, mem, msgEnd, src, kt, vt)
  ELSE printRelayStatus(returnHeader(st, RC_OK))

\* the segment log kept beside the program state: the relay and the operation
\* the code decoded, and the bank after the segment
Logged(st, relNum, stat) ==
  [st EXCEPT !.segs = Append(@, [relNum |-> relNum, stat |-> stat, bank |-> st.portStatus])]

\* int stat = atoi(statChar); switch(stat) ... default: error 5
\* (clean is the number the copied byte alone denotes)
SegStat(st, mem, msgEnd, relNum, amp, stat, clean, kt, vt) ==
  IF stat \notin {R_ON, R_OFF, R_INV}
  THEN ParseFail([st EXCEPT !.garbled = @ \/ stat # clean], 5)
  ELSE SegNext(Logged(ApplyStat([st EXCEPT !.garbled = @ \/ stat # clean], relNum, stat),
                      relNum, stat),
               mem, msgEnd, amp, kt, vt)

\* lastSrc = src + 1; srcNum = msgEnd-src-1; src = memchr(src+2, TOK_AND, srcNum);
\* statLen = src ? (src - lastSrc) : srcNum; if(statLen != 1) error 5
\* (eq is the address of the '=', amp the result of the memchr)
SegValue(st, mem, msgEnd, eq, relNum, amp, kt, vt) ==
  IF BadStatLen(IF amp # NULL THEN amp - (eq + 1) ELSE msgEnd - eq - 1)
  THEN ParseFail(st, 5)
  ELSE SegStat(st, mem, msgEnd, relNum, amp,
               CopyAtoi(mem, eq + 1, 1, vt), CopyAtoi(mem, eq + 1, 1, <<>>), kt, vt)

\* int relNum = atoi(relNumChar); the range check, error 4
SegRelNum(st, mem, msgEnd, eq, relNum, clean, kt, vt) ==
  IF BadRelNum(relNum)
  THEN ParseFail([st EXCEPT !.garbled = @ \/ relNum # clean], 4)
  ELSE SegValue([st EXCEPT !.garbled = @ \/ relNum # clean], mem, msgEnd, eq, relNum,
                Memchr(mem, eq + 2, TOK_AND, msgEnd - eq - 1), kt, vt)

\* the cursor log kept beside the program state: every address src is given
Moved(st, src) == [st EXCEPT !.cur = Append(@, src)]

\* if(!src) error 6; relLen = src - lastSrc; if( !(relLen <= RCL) ) error 4
SegKey(st, mem, msgEnd, lastSrc, eq, kt, vt) ==
  IF eq = NULL THEN ParseFail(st, 6)
  ELSE IF KeyTooLong(eq - lastSrc) THEN ParseFail(Moved(st, eq), 4)
  ELSE SegRelNum(Moved(st, eq), mem, msgEnd, eq,
                 CopyAtoi(mem, lastSrc, eq - lastSrc, kt),
                 CopyAtoi(mem, lastSrc, eq - lastSrc, <<>>), kt, vt)

\* (mutant) a key search that starts at the cursor itself
SegLoop_FromSrc(st, mem, msgEnd, src, kt, vt) ==
  SegKey(Moved([st EXCEPT !.its = @ + 1], src), mem, msgEnd, src,
         Memchr(mem, src, TOK_EQU, msgEnd - src), kt, vt)

\* srcNum = msgEnd-src; lastSrc = src; src = memchr(src+1, TOK_EQU, srcNum);
\* (its counts the iterations begun)
SegLoop(st, mem, msgEnd, src, kt, vt) ==
  SegKey(Moved([st EXCEPT !.its = @ + 1], src), mem, msgEnd, src,
         Memchr(mem, src + 1, TOK_EQU, msgEnd - src), kt, vt)

\* changeRelayStatus(client, command, msgEnd).  Its first statement,
\* *(command+(size_t)msgEnd) = 0, stores a zero byte at the address that is the
\* SUM of two addresses of the heap block: that address lies above the block
\* (and above the statically allocated bank), so it changes neither the request
\* buffer nor portStatus; the store is counted in stray.  cmd keeps the bytes
\* command .. msgEnd-1 the parser is handed.
changeRelayStatus(st, mem, command, msgEnd, kt, vt) ==
  IF TooShort(msgEnd - command)
  THEN ParseFail([st EXCEPT !.stray = @ + 1, !.cmdLen = msgEnd - command, !.parsed = TRUE,
                            !.cmd = Bytes(mem, command, msgEnd - command)], 3)
  ELSE SegLoop([st EXCEPT !.stray = @ + 1, !.cmdLen = msgEnd - command, !.parsed = TRUE,
                          !.cmd = Bytes(mem, command, msgEnd - command)],
               mem, msgEnd, command, kt, vt)

(* ---------------------------- request router --------------------------- *)

\* the window of the path search in getGetData: memchr(beg, ' ', 10)
LOOKAHEAD == 10

\* address of the request buffer (msg); low memory lies below it
Base == LowLen + 1

MaxOf(a, b) == IF a >= b THEN a ELSE b

\* (mutant) a size check that rejects the maximum itself
TooBig_Ge(size) == size >= maxSize

\* if(size > maxSize)
TooBig(size) == size > maxSize

\* strncmp((char*)msg, GET, 3) == 0
IsGet(mem) == StrncmpEq(mem, Base, GET, 3)

\* (mutant) a method test on three bytes only
IsPost_Three(mem) == StrncmpEq(mem, Base, POST, 3)

\* strncmp(msg, POST, 4) == 0
IsPost(mem) == StrncmpEq(mem, Base, POST, 4)

\* getGetData(charArr, start): memory with the space that ends the path (if
\* one lies within the window; end is the result of the memchr) overwritten by
\* NUL; the path starts at charArr + start
getGetData(mem, end) == IF end # NULL THEN [mem EXCEPT ![end] = NUL] ELSE mem

\* returnHeader(client, RC_OK); then the version or the relay status
GetReply(st, mem, data, end) ==
  IF CStr(getGetData(mem, end), data) = REQ_ABOUT
  THEN printVersion(returnHeader([st EXCEPT !.branch = "get",
                                            !.hi = IF end # NULL THEN end ELSE data + LOOKAHEAD - 1],
                                 RC_OK))
  ELSE printRelayStatus(returnHeader([st EXCEPT !.branch = "get",
                                               !.hi = IF end # NULL THEN end ELSE data + LOOKAHEAD - 1],
                                     RC_OK))

\* do { lnl = src; src = memchr(src+1, '\n', end-src); } while(src): the values
\* lnl is given, one per iteration; the last is the address of the last line
\* feed (msg-1 when there is none)
RECURSIVE LineScan(_, _, _)
\* (mutant) a scan that stops at the first line feed
LineNext_First(mem, lnl, src, end) == IF src = NULL THEN <<lnl>> ELSE <<lnl, src>>

\* } while(src);
LineNext(mem, lnl, src, end) ==
  IF src = NULL THEN <<lnl>> ELSE <<lnl>> \o LineScan(mem, src, end)
LineScan(mem, src, end) == LineNext(mem, src, Memchr(mem, src + 1, NL, end - src), end)
\* the value lnl has after the loop
LastLine(scan) == scan[Len(scan)]

\* the query-string form: spaceLocation is the result of
\* memchr(src+7, ' ', end-src); when it is NULL error 6 is written and lnl
\* stays NULL
QueryBranch(st, mem, src, end, spaceLocation, kt, vt) ==
  IF spaceLocation # NULL
  THEN changeRelayStatus([st EXCEPT !.branch = "query", !.hi = MaxOf(@, spaceLocation)],
                         [mem EXCEPT ![src + (spaceLocation - src)] = NUL],
                         (src + 7) + 1, src + (spaceLocation - src), kt, vt)
  ELSE changeRelayStatus(returnErr(returnHeader([st EXCEPT !.branch = "noquery",
                                                           !.hi = MaxOf(@, src + 7 + (end - src) - 1)],
                                                RC_ERR), 6),
                         mem, NULL + 1, end, kt, vt)

\* (mutant) a POST branch that takes the command from the last line even when
\* the request line carries a query string
PostBranch_LastLine(st, mem, size, kt, vt) ==
  changeRelayStatus([st EXCEPT !.branch = IF mem[Base + 6] = "?" THEN "query" ELSE "body",
                               !.hi = Base + 6, !.scan = LineScan(mem, Base - 1, Base + size)],
                    mem, LastLine(LineScan(mem, Base - 1, Base + size)) + 1, Base + size, kt, vt)

\* the POST branch of loop(): the command is taken from the query string when
\* msg[6] is '?', else from the last line; changeRelayStatus(client, lnl+1, end)
\* is called on every path, also after the error 6 response, where lnl is NULL
PostBranch(st, mem, size, kt, vt) ==
  IF mem[Base + 6] = "?"
  THEN QueryBranch([st EXCEPT !.hi = Base + 6], mem, Base - 1, Base + size,
                   Memchr(mem, (Base - 1) + 7, " ", (Base + size) - (Base - 1)), kt, vt)
  ELSE changeRelayStatus([st EXCEPT !.branch = "body", !.hi = Base + 6,
                                    !.scan = LineScan(mem, Base - 1, Base + size)],
                         mem, LastLine(LineScan(mem, Base - 1, Base + size)) + 1,
                         Base + size, kt, vt)

\* (mutant) a GET branch that runs the command of a query string "GET /?..."
GetBranch_Query(st, mem) ==
  IF mem[Base + 5] = "?"
  THEN QueryBranch(st, mem, Base - 2, Len(mem) - LOOKAHEAD,
                   Memchr(mem, Base + 5, " ", Len(mem) - LOOKAHEAD - Base), <<>>, <<>>)
  ELSE GetReply(st, mem, Base + 4, Memchr(mem, Base + 4, " ", LOOKAHEAD))

\* the GET branch of loop(): char *data = getGetData(msg, 4); ...
GetBranch(st, mem) == GetReply(st, mem, Base + 4, Memchr(mem, Base + 4, " ", LOOKAHEAD))

\* the method test of loop() on the buffer read into memory
Dispatch(st, mem, size, kt, vt) ==
  IF IsGet(mem) THEN GetBranch(st, mem)
  ELSE IF IsPost(mem) THEN PostBranch(st, mem, size, kt, vt)
  ELSE returnErr(returnHeader([st EXCEPT !.branch = "other"], RC_ERR), 2)

\* the state a request is handled from
Start(bank, pinsv) ==
  [portStatus |-> bank, pins |-> pinsv, before |-> bank, pinsBefore |-> pinsv,
   out |-> <<>>, dw |-> <<>>, segs |-> <<>>, fail |-> 0, garbled |-> FALSE, stray |-> 0,
   cmdLen |-> 0 - 1, parsed |-> FALSE, branch |-> "none", hi |-> 0, cmd |-> <<>>,
   cur |-> <<>>, its |-> 0, scan |-> <<>>]

\* the body of loop() for one client with request m: low and junk are the
\* bytes below the buffer and above its terminator, kt and vt the bytes that
\* follow the copied key and value where atoi reads them
loopBody(bank, pinsv, m, low, junk, kt, vt) ==
  IF ~(Len(m) > 0) THEN [Start(bank, pinsv) EXCEPT !.branch = "empty"]
  ELSE IF TooBig(Len(m))
    THEN returnErr(returnHeader([Start(bank, pinsv) EXCEPT !.branch = "toobig"], RC_ERR), 1)
  ELSE Dispatch(Start(bank, pinsv), low \o m \o <<NUL>> \o junk, Len(m), kt, vt)

(* ------------------- indeterminate memory contents --------------------- *)

\* bytes above the buffer's terminator (never written by the program)
JunkX == [p \in 1 .. LOOKAHEAD |-> "x"]
\* what a freed request "GET /about ..." leaves behind a shorter buffer
JunkAbout == [p \in 1 .. LOOKAHEAD |-> IF p <= Len(REQ_ABOUT) THEN REQ_ABOUT[p]
                                        ELSE IF p = Len(REQ_ABOUT) + 1 THEN " " ELSE "x"]
JunkImages ==
  { JunkX, JunkAbout,
    [p \in 1 .. LOOKAHEAD |-> " "],
    [p \in 1 .. LOOKAHEAD |-> IF p = 2 THEN "?" ELSE "x"],
    [p \in 1 .. LOOKAHEAD |-> IF p = 2 THEN "?" ELSE IF p = 3 THEN " " ELSE "x"] }

\* bytes at addresses 1 .. LowLen (address 1 is the zero register)
LowX == [p \in 1 .. LowLen |-> IF p = 1 THEN NUL ELSE "x"]
LowImages ==
  { LowX,
    [p \in 1 .. LowLen |-> IF p = 1 THEN NUL ELSE IF p = 2 THEN "=" ELSE "x"],
    [p \in 1 .. LowLen |-> CASE p = 1 -> NUL [] p = 3 -> "=" [] p = 4 -> "1"
                                [] p = 5 -> "&" [] OTHER -> "x"] }

\* bytes that follow the bytes copied for atoi: a terminator, or a digit
Tails == { <<>>, <<"5">> }

\* the indeterminate bytes one pass of loop() may meet: any memory around the
\* buffer, or any bytes behind the copied key and value
Envs ==
  {[low |-> LowX, junk |-> j, kt |-> <<>>, vt |-> <<>>] : j \in JunkImages}
    \cup {[low |-> l, junk |-> j, kt |-> <<>>, vt |-> <<>>] :
            l \in LowImages, j \in {JunkX, [p \in 1 .. LOOKAHEAD |-> IF p = 2 THEN "?" ELSE "x"]}}
    \cup {[low |-> LowX, junk |-> JunkX, kt |-> k, vt |-> v] : k \in Tails, v \in Tails}

(* ------------------------- requests of the client ---------------------- *)

DigitChar(i) ==
  CASE i = 0 -> "0" [] i = 1 -> "1" [] i = 2 -> "2" [] i = 3 -> "3" [] i = 4 -> "4"
    [] i = 5 -> "5" [] i = 6 -> "6" [] i = 7 -> "7" [] i = 8 -> "8" [] i = 9 -> "9"

Seg(k, v) == k \o <<TOK_EQU>> \o v
Cmd1(i, op) == Seg(<<DigitChar(i)>>, <<DigitChar(op)>>)

\* the relays the client's commands address
Addressed == {0, 1, 3, 7}
GoodKeys == {<<DigitChar(i)>> : i \in Addressed}
BadKeys == { <<"8">>, <<"9">>, <<"a">>, <<"-", "1">>, <<"0", "7">>, <<"1", "0">>,
             <<"0", "0", "7">>, <<"0", "0", "0", "7">> }
GoodVals == {<<DigitChar(op)>> : op \in {R_OFF, R_ON, R_INV}}
BadVals == { <<"3">>, <<"a">>, <<"1", "2">>, <<>> }

SingleCmds == {Seg(k, v) : k \in GoodKeys \cup BadKeys, v \in GoodVals}
                \cup {Seg(k, v) : k \in {<<"0">>, <<"3">>}, v \in BadVals}
ShortCmds == { <<>>, <<"0">>, <<"0", "=">>, <<"=", "1">> }
OddCmds == { <<"0", "1", "2">>, <<"0", "=", "1", "&">>, <<"0", "=", "&", "&">>,
             <<"0", "=", "1", "=", "1">>, <<"=", "1", "&", "0", "=", "1">> }

FirstSegs == { Cmd1(0, 1), Cmd1(3, 2) }
LaterSegs == { Cmd1(1, 0), Cmd1(2, 2), Seg(<<"9">>, <<"1">>), Seg(<<"1">>, <<"5">>) }

\* the segments a command goes on with after its second
DeepSegs == { Cmd1(2, 2), Seg(<<"1">>, <<"5">>) }
RECURSIVE Deeper(_)
Deeper(n) ==
  IF n = 0 THEN { <<>> }
  ELSE {<<TOK_AND>> \o s \o t : s \in DeepSegs, t \in Deeper(n - 1)}
\* the n further segments a command has after the first
Later(n) ==
  IF n = 0 THEN { <<>> }
  ELSE {<<TOK_AND>> \o s \o t : s \in LaterSegs, t \in Deeper(n - 1)}
MultiCmds == UNION {{f \o t : f \in FirstSegs, t \in Later(n)} : n \in 1 .. (MaxSegs - 1)}
\* the two-segment commands, sent in body form as well
PairCmds == {f \o t : f \in FirstSegs, t \in Later(1)}

ReqLineEnd == <<" ", "H", "T", "T", "P", "\n", "\n">>
BodyHead == <<"P", "O", "S", "T", " ", "/", " ", "H", "T", "T", "P", "\n", "A", ":", "b", "\n", "\n">>

\* POST /?<cmd> HTTP...   (the command in the query string)
QueryReq(c) == POST \o <<" ", "/", "?">> \o c \o ReqLineEnd
\* the same with a body that is itself a command
QueryReqBody(c, b) == QueryReq(c) \o b
\* a query string that no space ends
QueryNoSpace(c) == POST \o <<" ", "/", "?">> \o c
\* POST / HTTP... with the command as the last line
BodyReq(c) == BodyHead \o c
\* a body followed by a line feed
BodyReqLF(c) == BodyHead \o c \o <<"\n">>
\* a POST without any line feed
BodyNoLF(c) == POST \o <<" ", "/", "x">> \o c

PadTo(s, n) == s \o [i \in 1 .. (n - Len(s)) |-> "x"]

GetReqs ==
  { GET, GET \o <<" ">>, GET \o <<" ", "/">>, GET \o <<" ", "/", " ", "H", "T", "T", "P">>,
    GET \o <<" ">> \o REQ_ABOUT, GET \o <<" ">> \o REQ_ABOUT \o <<" ", "H", "T", "T", "P">>,
    GET \o <<" ">> \o REQ_ABOUT \o <<"x", " ">>,
    GET \o <<" ", "/", "?">> \o Cmd1(0, 1) \o <<" ", "H">>,
    GET \o <<"X", " ", "/", "?">> \o Cmd1(1, 2) \o <<" ">> }

OtherReqs ==
  { <<"P">>, <<"G", "E">>, <<"P", "O", "S">>, <<"g", "e", "t", " ", "/", " ">>,
    <<"p", "o", "s", "t", " ", "/", "?">> \o Cmd1(0, 1) \o <<" ">>,
    <<"P", "U", "T", " ", "/", "?">> \o Cmd1(0, 1) \o <<" ">>,
    <<"P", "O", "S", "X", " ", "/", "?">> \o Cmd1(0, 1) \o <<" ">>,
    <<"H", "E", "A", "D", " ", "/">>, <<" ", "G", "E", "T", " ", "/">> }

PostReqs ==
  {QueryReq(c) : c \in SingleCmds \cup ShortCmds \cup OddCmds \cup MultiCmds}
    \cup {QueryReqBody(Cmd1(0, 2), Cmd1(1, 1)), QueryReqBody(<<"0">>, Cmd1(1, 1))}
    \cup {QueryNoSpace(c) : c \in {<<>>, Cmd1(0, 1), Cmd1(0, 1) \o <<TOK_AND>> \o Cmd1(1, 1)}}
    \cup {BodyReq(c) : c \in {Cmd1(i, op) : i \in {0, 7}, op \in {0, 1, 2}}
                              \cup ShortCmds \cup PairCmds \cup {<<"a", "=", "1">>, <<"0", "=", "a">>}}
    \cup {BodyReqLF(Cmd1(0, 1)), BodyNoLF(Cmd1(0, 1)), BodyNoLF(<<>>),
          BodyReq(Cmd1(0, 1) \o <<"\n">> \o Cmd1(7, 1)),
          POST, POST \o <<" ">>, POST \o <<" ", "/">>}

\* requests of exactly maxSize bytes, and of more
EdgeReqs ==
  { PadTo(GET \o <<" ", "/", " ">>, maxSize),
    PadTo(QueryReq(Cmd1(3, 2)), maxSize),
    PadTo(BodyHead, maxSize - 4) \o <<"\n">> \o Cmd1(7, 1),
    PadTo(<<"P", "U", "T", " ">>, maxSize) }
BigReqs ==
  { PadTo(GET \o <<" ", "/", " ">>, maxSize + 1),
    PadTo(QueryReq(Cmd1(3, 2)), maxSize + 1),
    PadTo(<<"P", "U", "T", " ">>, maxSize + 1),
    PadTo(BodyHead, maxSize + 16) \o <<"\n">> \o Cmd1(7, 1) }

Requests == GetReqs \cup OtherReqs \cup PostReqs \cup EdgeReqs \cup BigReqs \cup { <<>> }

(* ------------------------------- the system ---------------------------- *)

NoMsg == <<>>
NoPrev == [msg |-> NoMsg, bank |-> <<>>]
NoEnv == [low |-> <<>>, junk |-> <<>>, kt |-> <<>>, vt |-> <<>>]
NoH == [before |-> <<>>, pinsBefore |-> <<>>, out |-> <<>>, dw |-> <<>>, segs |-> <<>>,
        fail |-> 0, garbled |-> FALSE, stray |-> 0, cmdLen |-> 0 - 1, parsed |-> FALSE,
        branch |-> "none", hi |-> 0, cmd |-> <<>>, cur |-> <<>>, its |-> 0, scan |-> <<>>,
        env |-> NoEnv]

\* the single-relay query requests the client may follow with another request
\* for the same relay
SingleReq(i, op) == QueryReq(Cmd1(i, op))
Followed == {0, 3}
Remembered == {SingleReq(i, op) : i \in Followed, op \in {R_OFF, R_ON, R_INV}}
FollowUps(m) ==
  {m} \cup UNION {{SingleReq(i, op2) : op2 \in {R_OFF, R_ON, R_INV}} :
                    i \in {j \in Followed : \E op \in {R_OFF, R_ON, R_INV} : m = SingleReq(j, op)}}

\* setup(): every pin HIGH, the bank all off, no client
Init ==
  /\ portStatus = [i \in Relays |-> FALSE]
  /\ pins = [p \in Ports |-> HIGH]
  /\ pc = "idle"
  /\ msg = NoMsg
  /\ prev = NoPrev
  /\ h = NoH

\* a client connects and its request becomes available to server.available()
ClientSend(m) ==
  /\ pc = "idle"
  /\ pc' = "pending"
  /\ msg' = m
  /\ UNCHANGED <<portStatus, pins, prev, h>>

\* one pass of loop() over the waiting client, up to the response; h keeps
\* what the pass did beside the program state, and the indeterminate bytes it met
loop ==
  /\ pc = "pending"
  /\ \E e \in Envs :
       \E r \in {loopBody(portStatus, pins, msg, e.low, e.junk, e.kt, e.vt)} :
          /\ portStatus' = r.portStatus
          /\ pins' = r.pins
          /\ h' = [before |-> r.before, pinsBefore |-> r.pinsBefore, out |-> r.out,
                   dw |-> r.dw, segs |-> r.segs, fail |-> r.fail, garbled |-> r.garbled,
                   stray |-> r.stray, cmdLen |-> r.cmdLen, parsed |-> r.parsed,
                   branch |-> r.branch, hi |-> r.hi, cmd |-> r.cmd,
                   cur |-> r.cur, its |-> r.its, scan |-> r.scan, env |-> e]
  /\ pc' = "responded"
  /\ UNCHANGED <<msg, prev>>

\* delay(2); client.stop(): the connection is closed; the client may go on to
\* repeat or follow up the request just answered (kept in prev with the bank
\* it met) or start afresh
ClientStop ==
  /\ pc = "responded"
  /\ pc' = "idle"
  /\ msg' = NoMsg
  /\ h' = NoH
  /\ prev' \in {NoPrev} \cup {[msg |-> m, bank |-> h.before] : m \in {msg} \cap Remembered}
  /\ UNCHANGED <<portStatus, pins>>

Next ==
  \/ \E m \in (IF prev = NoPrev THEN Requests ELSE FollowUps(prev.msg)) : ClientSend(m)
  \/ loop
  \/ ClientStop

Spec == Init /\ [][Next]_vars

(* ======================= reference definitions ========================= *)
(* What a request asks for, read from the request text alone.              *)

Responded == pc = "responded"

IsPrefix(p, t) == Len(t) >= Len(p) /\ \A i \in 1 .. Len(p) : t[i] = p[i]

\* number of status lines written
Headers(out) == Cardinality({i \in 1 .. Len(out) : out[i] = HD_START})

\* the one 500 response with error code rc
ErrReply(rc) == <<HD_START, RC_ERR, HD_END, RS_ERR_START, IntStr(rc), RS_ERR_END, CRLF>>

\* one 200 response carrying a relay status
IsOkStatus(out) ==
  /\ Headers(out) = 1
  /\ Len(out) > 4
  /\ out[1] = HD_START /\ out[2] = RC_OK /\ out[3] = HD_END /\ out[4] = RS_START

FirstAt(t, ch, from) ==
  LET hits == {i \in from .. Len(t) : t[i] = ch} IN IF hits = {} THEN 0 ELSE Min(hits)
LastAt(t, ch) ==
  LET hits == {i \in 1 .. Len(t) : t[i] = ch}
  IN IF hits = {} THEN 0 ELSE CHOOSE i \in hits : \A j \in hits : j <= i

\* a POST of accepted size whose command payload lies inside the buffer
IsQueryForm(m) == Len(m) >= 7 /\ m[7] = "?"
HasPayload(m) ==
  /\ IsPrefix(POST, m) /\ Len(m) <= maxSize /\ Len(m) >= 7
  /\ IsQueryForm(m) => FirstAt(m, " ", 8) # 0
RefPayload(m) ==
  IF IsQueryForm(m) THEN SubSeq(m, 8, FirstAt(m, " ", 8) - 1)
  ELSE SubSeq(m, LastAt(m, "\n") + 1, Len(m))

RECURSIVE RefSplit(_, _)
RefSplit(t, sep) ==
  IF FirstAt(t, sep, 1) = 0 THEN <<t>>
  ELSE <<SubSeq(t, 1, FirstAt(t, sep, 1) - 1)>>
         \o RefSplit(SubSeq(t, FirstAt(t, sep, 1) + 1, Len(t)), sep)

\* the segments of a payload as (key, value) texts
RefKey(seg) == IF FirstAt(seg, "=", 1) = 0 THEN seg ELSE SubSeq(seg, 1, FirstAt(seg, "=", 1) - 1)
RefVal(seg) == IF FirstAt(seg, "=", 1) = 0 THEN <<>> ELSE SubSeq(seg, FirstAt(seg, "=", 1) + 1, Len(seg))
RefSegs(m) == RefSplit(RefPayload(m), "&")

AllDigits(t) == Len(t) > 0 /\ \A i \in 1 .. Len(t) : t[i] \in Digits
RefNum(t) == AtoiDigits(t, 1, 0)
\* index := one decimal digit below the relay count ; op := "0" | "1" | "2"
GoodKey(k) == Len(k) = 1 /\ AllDigits(k) /\ RefNum(k) < numRelays
\* a key that is not a number, or a number outside 0 .. N-1
BadKey(k) == ~AllDigits(k) \/ RefNum(k) >= numRelays
GoodVal(v) == v \in {<<"0">>, <<"1">>, <<"2">>}
GoodSeg(seg) == FirstAt(seg, "=", 1) # 0 /\ GoodKey(RefKey(seg)) /\ GoodVal(RefVal(seg))

\* the bank after the operation op on relay i
RefOp(bank, i, op) ==
  [bank EXCEPT ![i] = CASE op = 0 -> FALSE [] op = 1 -> TRUE [] op = 2 -> ~bank[i]]
\* the bank after the first n segments, each applied to the relay its key names
RECURSIVE RefApply(_, _, _)
RefApply(bank, segs, n) ==
  IF n = 0 THEN bank
  ELSE RefOp(RefApply(bank, segs, n - 1), RefNum(RefKey(segs[n])), RefNum(RefVal(segs[n])))
\* the bank after the logged mutations
RECURSIVE Replay(_, _, _)
Replay(bank, log, n) ==
  IF n = 0 THEN bank ELSE RefOp(Replay(bank, log, n - 1), log[n].relNum, log[n].stat)

Untouched == portStatus = h.before /\ pins = h.pinsBefore /\ h.dw = <<>>

(* ============================== claims ================================= *)

\* C1 (as claimed): a POST carrying a valid command of two or more segments is
\* answered with 200 and leaves the bank as the prior bank with every segment
\* applied, in order, to the relay its own key names (stated for the passes in
\* which atoi met no stray digit).
C1_SegmentsAppliedInOrder ==
  (Responded /\ HasPayload(msg) /\ ~h.garbled
     /\ Len(RefSegs(msg)) >= 2 /\ \A k \in 1 .. Len(RefSegs(msg)) : GoodSeg(RefSegs(msg)[k]))
  => /\ IsOkStatus(h.out)
     /\ portStatus = RefApply(h.before, RefSegs(msg), Len(RefSegs(msg)))

\* C2 (as claimed): a segment, first or later, whose key is no number or a
\* number outside 0 .. N-1 is answered with 500 {"e":4} and mutates nothing
\* (the segments before it are valid and stay applied).
C2_BadKeyRejected ==
  (Responded /\ HasPayload(msg) /\ ~h.garbled /\ Len(RefPayload(msg)) >= 3)
  => \A k \in 1 .. Len(RefSegs(msg)) :
       ( /\ \A j \in 1 .. (k - 1) : GoodSeg(RefSegs(msg)[j])
         /\ FirstAt(RefSegs(msg)[k], "=", 1) # 0
         /\ BadKey(RefKey(RefSegs(msg)[k])) )
       => /\ h.out = ErrReply(4)
          /\ portStatus = RefApply(h.before, RefSegs(msg), k - 1)

\* C3 (as claimed): a segment with a valid key whose value is not exactly one
\* of the bytes '0', '1', '2' is answered with 500 {"e":5} and mutates nothing.
C3_BadValueRejected ==
  (Responded /\ HasPayload(msg) /\ ~h.garbled /\ Len(RefPayload(msg)) >= 3)
  => \A k \in 1 .. Len(RefSegs(msg)) :
       ( /\ \A j \in 1 .. (k - 1) : GoodSeg(RefSegs(msg)[j])
         /\ FirstAt(RefSegs(msg)[k], "=", 1) # 0
         /\ GoodKey(RefKey(RefSegs(msg)[k]))
         /\ ~GoodVal(RefVal(RefSegs(msg)[k])) )
       => /\ h.out = ErrReply(5)
          /\ portStatus = RefApply(h.before, RefSegs(msg), k - 1)

\* C4: when the parser rejects segment k of a POST command, the answer is the
\* one 500 error response, the bank is the prior bank with the mutations of
\* segments 1 .. k-1 (nothing is rolled back), and segment k and the segments
\* after it have mutated nothing.
C4_NoRollbackOnFailure ==
  (Responded /\ h.branch \in {"query", "body"} /\ h.fail >= 1)
  => /\ \E rc \in {3, 4, 5, 6} : h.out = ErrReply(rc)
     /\ Len(h.segs) = h.fail - 1
     /\ portStatus = Replay(h.before, h.segs, h.fail - 1)
     /\ h.fail > 1 => portStatus = h.segs[h.fail - 1].bank
     /\ Len(h.dw) <= h.fail - 1
     /\ HasPayload(msg) => h.fail <= Len(RefSegs(msg))

\* C4 witness: the third segment of a query command is rejected with error 5
\* and the changes of the first two are still in the bank
C4_Witness ==
  /\ Responded /\ h.branch = "query" /\ h.fail = 3 /\ h.out = ErrReply(5)
  /\ portStatus # h.before
  /\ \E i \in Relays : portStatus[i] /\ ~h.before[i]

\* C5: a request that begins with "GET" (any path) leaves the bank and the
\* output pins as they were and writes no pin.
C5_GetLeavesBankAlone ==
  (Responded /\ IsPrefix(GET, msg)) => Untouched

\* C5 witness: "GET /?0=1 H" answered with the status while relay 0 is off and
\* another relay is on
C5_Witness ==
  /\ Responded /\ msg = GET \o <<" ", "/", "?">> \o Cmd1(0, 1) \o <<" ", "H">>
  /\ IsOkStatus(h.out) /\ ~portStatus[0] /\ \E i \in Relays : portStatus[i]

\* C6 (as claimed): the single-segment command "i=1" is answered with 200,
\* leaves line i on and every other line as it was, and sent again leaves the
\* bank unchanged.
C6_SetOnIdempotent ==
  Responded =>
    \A i \in Relays :
      (msg = SingleReq(i, R_ON) \/ msg = BodyReq(Cmd1(i, R_ON)))
      => /\ IsOkStatus(h.out)
         /\ portStatus = [h.before EXCEPT ![i] = TRUE]
         /\ prev.msg = msg => portStatus = h.before

\* C7 (as claimed): "i=2" flips line i and nothing else, so that twice in a
\* row restores the bank; "i=0" sent after "i=1" leaves line i off.
C7_InvertAndOff ==
  Responded =>
    \A i \in Relays :
      /\ (msg = SingleReq(i, R_INV) \/ msg = BodyReq(Cmd1(i, R_INV)))
         => /\ portStatus = [h.before EXCEPT ![i] = ~h.before[i]]
            /\ prev.msg = msg => portStatus = prev.bank
      /\ (msg = SingleReq(i, R_OFF) /\ prev.msg = SingleReq(i, R_ON)) => ~portStatus[i]

\* C8: a POST whose extracted command payload is shorter than 3 bytes, in
\* either form, is answered with exactly 500 {"e":3} and touches nothing.
C8_ShortPayloadRejected ==
  ( /\ Responded
    /\ \/ h.branch \in {"query", "body"} /\ h.cmdLen < 3
       \/ HasPayload(msg) /\ Len(RefPayload(msg)) < 3 )
  => h.out = ErrReply(3) /\ Untouched

\* C8 witness: a body-form POST ending in a line feed (empty payload) met with
\* a relay on
C8_Witness ==
  /\ Responded /\ h.branch = "body" /\ HasPayload(msg) /\ Len(RefPayload(msg)) = 0
  /\ h.out = ErrReply(3) /\ \E i \in Relays : portStatus[i]

\* C9: a request larger than maxSize is answered with 500 {"e":1}, is neither
\* read nor parsed and touches nothing; a request of exactly maxSize bytes is
\* dispatched on its method and, if a POST, parsed.
C9_OversizeRejected ==
  Responded =>
    /\ Len(msg) > maxSize
       => /\ h.out = ErrReply(1) /\ h.branch = "toobig" /\ ~h.parsed /\ h.hi = 0
          /\ Untouched
    /\ Len(msg) = maxSize
       => /\ h.out # ErrReply(1)
          /\ h.branch = (IF IsPrefix(GET, msg) THEN "get"
                         ELSE IF ~IsPrefix(POST, msg) THEN "other"
                         ELSE IF IsQueryForm(msg) THEN "query" ELSE "body")
          /\ IsPrefix(POST, msg) => h.parsed

\* C9 witness: a POST of maxSize + 1 bytes that carries a valid command is
\* refused while a relay is on
C9_Witness ==
  /\ Responded /\ Len(msg) = maxSize + 1 /\ IsPrefix(POST, msg) /\ IsQueryForm(msg)
  /\ h.out = ErrReply(1) /\ \E i \in Relays : portStatus[i]

\* C10: a request of accepted size that begins with neither "GET" nor "POST"
\* is answered with 500 {"e":2} and touches nothing.
C10_UnsupportedMethod ==
  (Responded /\ Len(msg) > 0 /\ Len(msg) <= maxSize
     /\ ~IsPrefix(GET, msg) /\ ~IsPrefix(POST, msg))
  => h.out = ErrReply(2) /\ Untouched

\* C10 witness: "post /?0=1 " in lower case is refused while a relay is on
C10_Witness ==
  /\ Responded
  /\ msg = <<"p", "o", "s", "t", " ", "/", "?">> \o Cmd1(0, 1) \o <<" ">>
  /\ h.out = ErrReply(2) /\ \E i \in Relays : portStatus[i]

\* C11 (as claimed): a query-form POST of accepted size in which no space
\* follows the '?' is answered with exactly 500 {"e":6}, the command parser is
\* not run, and the bank and the pins are untouched.
C11_NoSpaceMalformed ==
  (Responded /\ IsPrefix(POST, msg) /\ Len(msg) <= maxSize
     /\ IsQueryForm(msg) /\ FirstAt(msg, " ", 8) = 0)
  => h.out = ErrReply(6) /\ ~h.parsed /\ Untouched

\* number of JSON bodies written
Bodies(out) == Cardinality({i \in 1 .. Len(out) : out[i] \in {RS_START, RS_ERR_START, VERSION}})

\* C12 (as claimed): every request with bytes available is answered with one
\* status line and one JSON body: 200 with the status or the version JSON, 500
\* with {"e":c} for one c in 1..6, and nothing is written after it.
C12_OneResponse ==
  (Responded /\ Len(msg) > 0)
  => /\ Headers(h.out) = 1 /\ Bodies(h.out) = 1
     /\ h.out[1] = HD_START
     /\ h.out[2] = RC_OK => h.out[4] \in {RS_START, VERSION}
     /\ h.out[2] = RC_ERR => \E c \in 1 .. 6 : h.out = ErrReply(c)

\* the bytes of a query-form request up to and including the space that ends
\* the query string
QueryPrefix(m) == SubSeq(m, 1, FirstAt(m, " ", 8))

\* C13: in query-string form the payload handed to the parser is exactly the
\* bytes between the '?' at byte 6 and the next space, and response, bank and
\* pins are those of the request cut off after that space, handled from the same
\* bank with the same indeterminate bytes: the bytes after the space (headers,
\* or a body that is itself a command) have no influence.
C13_QueryIgnoresBody ==
  (Responded /\ h.branch = "query" /\ IsQueryForm(msg) /\ HasPayload(msg))
  => /\ h.cmd = SubSeq(msg, 8, FirstAt(msg, " ", 8) - 1)
     /\ \E r \in {loopBody(h.before, h.pinsBefore, QueryPrefix(msg),
                           h.env.low, h.env.junk, h.env.kt, h.env.vt)} :
          r.out = h.out /\ r.portStatus = portStatus /\ r.pins = pins /\ r.dw = h.dw

\* C13 witness: "POST /?0=2 HTTP" followed by the body "1=1" flips relay 0 and
\* leaves relay 1 off
C13_Witness ==
  /\ Responded /\ msg = QueryReqBody(Cmd1(0, 2), Cmd1(1, 1))
  /\ IsOkStatus(h.out) /\ portStatus[0] # h.before[0]
  /\ ~portStatus[1] /\ portStatus = [h.before EXCEPT ![0] = ~h.before[0]]

\* C14: in body form the payload handed to the parser is exactly the bytes
\* after the last line feed of the buffer up to its end (the whole buffer when
\* there is no line feed, nothing when the buffer ends in one), and the
\* outcome is that of the parser run on this payload alone, so that no earlier
\* line contributes a segment.
C14_BodyIsLastLine ==
  ( /\ Responded
    /\ \/ h.branch = "body"
       \/ IsPrefix(POST, msg) /\ Len(msg) <= maxSize /\ Len(msg) >= 7 /\ msg[7] # "?" )
  => /\ h.branch = "body" /\ h.parsed
     /\ h.cmd = SubSeq(msg, LastAt(msg, "\n") + 1, Len(msg))
     /\ h.cmdLen = Len(msg) - LastAt(msg, "\n")
     /\ \A i \in 1 .. Len(h.cmd) : h.cmd[i] # "\n"
     /\ \E r \in {changeRelayStatus(Start(h.before, h.pinsBefore),
                                    LowX \o h.cmd \o <<NUL>> \o JunkX,
                                    Base, Base + Len(h.cmd), h.env.kt, h.env.vt)} :
          r.out = h.out /\ r.portStatus = portStatus /\ r.dw = h.dw

\* C14 witness: a body whose last line is "7=1" after an earlier line "0=1"
\* switches relay 7 on and leaves relay 0 off
C14_Witness ==
  /\ Responded /\ h.branch = "body"
  /\ msg = BodyReq(Cmd1(0, 1) \o <<"\n">> \o Cmd1(7, 1))
  /\ h.cmd = Cmd1(7, 1) /\ IsOkStatus(h.out)
  /\ portStatus[7] /\ ~h.before[7] /\ ~portStatus[0]

\* the path token of a GET: the bytes after "GET " up to the next space
RefPath(m) ==
  IF Len(m) < 5 THEN <<>>
  ELSE SubSeq(m, 5, (IF FirstAt(m, " ", 5) = 0 THEN Len(m) ELSE FirstAt(m, " ", 5) - 1))

\* the entries of the status JSON of a bank: "ON" / "OFF" in quotes, in index
\* order, a comma between two entries
RefEntries(bank) ==
  [k \in 1 .. (4 * numRelays - 1) |->
     IF k % 4 = 0 THEN ","
     ELSE IF k % 4 = 2 THEN (IF bank[(k - 2) \div 4] THEN "ON" ELSE "OFF")
     ELSE "\""]
\* the 200 response with the status JSON of a bank, and with the version
OkStatus(bank) == <<HD_START, RC_OK, HD_END, RS_START>> \o RefEntries(bank) \o <<RS_END, CRLF>>
OkVersion == <<HD_START, RC_OK, HD_END, VERSION, CRLF>>

\* C15 (as claimed): a GET whose path token is exactly "/about" is answered
\* with 200 and the version payload whatever the bank; a GET with any other
\* path is answered with 200 and the status JSON of the bank.
C15_AboutOrStatus ==
  (Responded /\ IsPrefix(GET, msg) /\ Len(msg) <= maxSize)
  => IF RefPath(msg) = REQ_ABOUT THEN h.out = OkVersion
     ELSE h.out = OkStatus(portStatus)

C17_LongKeyRejected ==
  (Responded /\ HasPayload(msg) /\ ~h.garbled /\ Len(RefPayload(msg)) >= 3)
  => \A k \in 1 .. Len(RefSegs(msg)) :
       ( /\ \A j \in 1 .. (k - 1) : GoodSeg(RefSegs(msg)[j])
         /\ FirstAt(RefSegs(msg)[k], "=", 1) # 0
         /\ Len(RefKey(RefSegs(msg)[k])) > 1 )
       => /\ h.out = ErrReply(4)
          /\ Len(h.dw) <= k - 1
          /\ portStatus = RefApply(h.before, RefSegs(msg), k - 1)

C19_IndicesInRange ==
  /\ DOMAIN portStatus = 0 .. (numRelays - 1)
  /\ DOMAIN pins = {outputPorts(i) : i \in 0 .. (numRelays - 1)}
  /\ \A k \in 1 .. Len(h.segs) :
       /\ h.segs[k].relNum >= 0 /\ h.segs[k].relNum < numRelays
       /\ DOMAIN h.segs[k].bank = 0 .. (numRelays - 1)
  /\ \A k \in 1 .. Len(h.dw) :
       \E i \in 0 .. (numRelays - 1) : h.dw[k][1] = outputPorts(i)
  /\ Len(h.dw) <= Len(h.segs)

\* C19 witness: a request whose first segment addresses the last line, N-1,
\* and writes its pin
C19_Witness ==
  /\ Responded /\ Len(h.segs) >= 1 /\ h.segs[1].relNum = numRelays - 1
  /\ Len(h.dw) >= 1 /\ h.dw[1][1] = outputPorts(numRelays - 1)
  /\ portStatus[numRelays - 1] # h.before[numRelays - 1]

\* C20 (as claimed): while a request of accepted size is handled, no byte
\* behind the terminator of the request buffer is read: the highest address
\* read by the GET path search, the msg[6] test and the query-string space
\* search is at most the address of the terminator.
C20_NoReadPastEnd ==
  (Responded /\ Len(msg) > 0 /\ Len(msg) <= maxSize)
  => h.hi <= Base + Len(msg)

\* a log of addresses that only ever grows
Increasing(t) == \A i \in 1 .. (Len(t) - 1) : t[i] < t[i + 1]

SegBefore(k) == IF k = 1 THEN h.before ELSE h.segs[k - 1].bank

\* the pin writes the switch owes for the k-th decoded segment: none for an ON
\* on a line that is on or an OFF on a line that is off, else one write to
\* the line's pin at the level of the new state (LOW is on)
SegWrites(k) ==
  LET i == h.segs[k].relNum
      was == SegBefore(k)[i]
  IN CASE h.segs[k].stat = R_ON -> IF was THEN <<>> ELSE << <<outputPorts(i), LOW>> >>
       [] h.segs[k].stat = R_OFF -> IF ~was THEN <<>> ELSE << <<outputPorts(i), HIGH>> >>
       [] h.segs[k].stat = R_INV -> << <<outputPorts(i), IF was THEN HIGH ELSE LOW>> >>

\* the state of line i the k-th decoded segment asks for
SegTarget(k) ==
  CASE h.segs[k].stat = R_ON -> TRUE
    [] h.segs[k].stat = R_OFF -> FALSE
    [] h.segs[k].stat = R_INV -> ~SegBefore(k)[h.segs[k].relNum]

RECURSIVE WritesUpTo(_)
WritesUpTo(n) == IF n = 0 THEN <<>> ELSE WritesUpTo(n - 1) \o SegWrites(n)

====
